---- MODULE Spec2Model ----
(***************************************************************************)
(* scripts/build_ca_dictionary.py: the coverage selector (select_words),   *)
(* the feature extractor (get_features) and the level orchestrator         *)
(* (build_level_words).                                                    *)
(*                                                                         *)
(* A character is a one-character string, a word is a sequence of          *)
(* characters, a candidate is a pair <<word, freq>>.  A feature tag        *)
(* "letter:c" is <<"letter", <<c>>>>, "symbol:c" is <<"symbol", <<c>>>>    *)
(* and "digraph:d" is <<"digraph", d>>.                                    *)
(***************************************************************************)
EXTENDS Integers, Sequences, FiniteSets, TLC

VARIABLES
    words,              \* select_words: the frequency-ordered (word, freq) list
    target_size,
    seed_size,
    candidate_size,
    allowed_letters,
    allowed_symbols,
    required_digraphs,
    include_words,
    selected,           \* select_words: the list being built
    selected_set,
    missing,
    origin,             \* history: the phase that appended selected[i]
    ret,                \* the returned (selected, missing), NoResult before
    master,             \* build_level_words: its words argument
    outputs,            \* build_level_words: the outputs list
    used,               \* history: the alphabet each level was processed with
    pc

vars == <<words, target_size, seed_size, candidate_size, allowed_letters,
          allowed_symbols, required_digraphs, include_words, selected,
          selected_set, missing, origin, ret, master, outputs, used, pc>>

selectVars == <<words, target_size, seed_size, candidate_size, include_words,
                selected, selected_set, missing, origin, ret>>

----------------------------------------------------------------------------
(* Bounds of the model *)

MaxWords == 3       \* length of a candidate list
MaxInclude == 2     \* length of an include_words list
MaxTarget == 3      \* largest target_size (and seed_size)
MaxLevels == 3      \* levels of a levels config

----------------------------------------------------------------------------
(* Module constants (excerpts of the Catalan alphabet) *)

LETTERS == {"a", "l"}

SYMBOLS == {"'"}

DIGRAPHS == << <<"l", "l">> >>

\* the words of the model's corpora
Vocabulary == { <<"a">>, <<"l", "a">>, <<"l", "'">>, <<"a", "l", "l">> }

\* the words an include_words argument is drawn from
IncludePool == { <<"a">>, <<"l", "'">> }

\* the alphabet arguments of a direct call: main's (lines 292-294) and a smaller one
AlphabetChoices ==
    { [letters |-> LETTERS, symbols |-> SYMBOLS, digraphs |-> DIGRAPHS],
      [letters |-> {"l"}, symbols |-> {}, digraphs |-> <<>>] }

\* ret before select_words has returned
NoResult == [selected |-> <<>>, missing |-> {}, early |-> FALSE]

None == <<"None">>

----------------------------------------------------------------------------
(* Helpers *)

Range(s) == {s[i] : i \in 1..Len(s)}

Min(a, b) == IF a < b THEN a ELSE b

Max(a, b) == IF a > b THEN a ELSE b

SeqsUpTo(S, n) == UNION {[1..k -> S] : k \in 0..n}

\* a corpus: words with strictly descending frequencies
WithFreq(ws) == [i \in 1..Len(ws) |-> <<ws[i], Len(ws) - i + 1>>]

\* Python's `d in word` for strings
Contains(word, d) ==
    \E i \in 0..(Len(word) - Len(d)) : SubSeq(word, i + 1, i + Len(d)) = d

\* str.lower() on the characters of the model
LowerChar(ch) == IF ch = "L" THEN "l" ELSE IF ch = "A" THEN "a" ELSE ch

Lower(word) == [i \in 1..Len(word) |-> LowerChar(word[i])]

----------------------------------------------------------------------------
(* get_features *)

get_features(word, digraphs) ==
    {<<"letter", <<word[i]>>>> : i \in {j \in 1..Len(word) : word[j] \in LETTERS}}
    \cup {<<"symbol", <<word[i]>>>> :
            i \in {j \in 1..Len(word) : word[j] \notin LETTERS /\ word[j] \in SYMBOLS}}
    \cup {<<"digraph", digraphs[k]>> :
            k \in {j \in 1..Len(digraphs) : Contains(word, digraphs[j])}}

----------------------------------------------------------------------------
(* select_words, phase by phase.  st is [selected, selected_set]. *)

Candidates(ws, csize) ==
    IF csize # 0 THEN SubSeq(ws, 1, Min(csize, Len(ws))) ELSE ws

\* AppendWord with selected.insert(0, word) for selected.append(word)
AppendWordFront(st, word) ==
    [selected |-> <<word>> \o st.selected,
     selected_set |-> st.selected_set \cup {word}]

AppendWord(st, word) ==
    [selected |-> Append(st.selected, word),
     selected_set |-> st.selected_set \cup {word}]

\* lines 114-120: the result carries `returned` when line 120 returned
RECURSIVE IncludeLoop(_, _, _, _)
IncludeLoop(incl, i, tsize, st) ==
    IF i > Len(incl) THEN [st |-> st, returned |-> FALSE]
    ELSE IF incl[i] \in st.selected_set THEN IncludeLoop(incl, i + 1, tsize, st)
    ELSE LET st2 == AppendWord(st, incl[i]) IN
         IF Len(st2.selected) >= tsize THEN [st |-> st2, returned |-> TRUE]
         ELSE IncludeLoop(incl, i + 1, tsize, st2)

\* lines 122-128
RECURSIVE SeedLoop(_, _, _, _)
SeedLoop(cands, i, ssize, st) ==
    IF i > Len(cands) THEN st
    ELSE IF cands[i][1] \in st.selected_set THEN SeedLoop(cands, i + 1, ssize, st)
    ELSE LET st2 == AppendWord(st, cands[i][1]) IN
         IF Len(st2.selected) >= ssize THEN st2
         ELSE SeedLoop(cands, i + 1, ssize, st2)

\* lines 130-132
TargetFeatures(letters, symbols, digraphs) ==
    {<<"letter", <<ch>>>> : ch \in letters}
    \cup {<<"symbol", <<ch>>>> : ch \in symbols}
    \cup {<<"digraph", digraphs[k]>> : k \in 1..Len(digraphs)}

\* lines 134-136
Covered(sel, digraphs) ==
    UNION {get_features(sel[i], digraphs) : i \in 1..Len(sel)}

\* line 138
InitialMissing(letters, symbols, digraphs, sel) ==
    TargetFeatures(letters, symbols, digraphs) \ Covered(sel, digraphs)

\* line 146
Gain(word, digraphs, miss) == Cardinality(get_features(word, digraphs) \cap miss)

\* Better with >= for >
BetterOrEqual(gain, best_gain) == gain >= best_gain

\* line 147
Better(gain, best_gain) == gain > best_gain

\* lines 141-149: best is [word, gain]
RECURSIVE ScanBest(_, _, _, _, _, _)
ScanBest(cands, i, sset, digraphs, miss, best) ==
    IF i > Len(cands) THEN best
    ELSE IF cands[i][1] \in sset THEN ScanBest(cands, i + 1, sset, digraphs, miss, best)
    ELSE LET gain == Gain(cands[i][1], digraphs, miss) IN
         IF Better(gain, best.gain)
         THEN ScanBest(cands, i + 1, sset, digraphs, miss,
                       [word |-> cands[i][1], gain |-> gain])
         ELSE ScanBest(cands, i + 1, sset, digraphs, miss, best)

BestWord(cands, sset, digraphs, miss) ==
    ScanBest(cands, 1, sset, digraphs, miss, [word |-> None, gain |-> 0]).word

\* GreedyGuard stopping one word short of target_size
GreedyGuardOffByOne(sel, miss, tsize) == miss # {} /\ Len(sel) < tsize - 1

\* line 140
GreedyGuard(sel, miss, tsize) == miss # {} /\ Len(sel) < tsize

\* line 154
RemoveCovered(miss, word, digraphs) == miss \ get_features(word, digraphs)

\* lines 140-154: g is [st, missing]
RECURSIVE GreedyLoop(_, _, _, _)
GreedyLoop(cands, tsize, digraphs, g) ==
    IF ~GreedyGuard(g.st.selected, g.missing, tsize) THEN g
    ELSE LET best_word == BestWord(cands, g.st.selected_set, digraphs, g.missing) IN
         IF best_word = None THEN g
         ELSE GreedyLoop(cands, tsize, digraphs,
                         [st |-> AppendWord(g.st, best_word),
                          missing |-> RemoveCovered(g.missing, best_word, digraphs)])

\* PadLoop without lines 159-160
RECURSIVE PadLoopNoCheck(_, _, _, _)
PadLoopNoCheck(cands, i, tsize, st) ==
    IF i > Len(cands) THEN st
    ELSE IF Len(st.selected) >= tsize THEN st
    ELSE PadLoopNoCheck(cands, i + 1, tsize, AppendWord(st, cands[i][1]))

\* lines 156-162
RECURSIVE PadLoop(_, _, _, _)
PadLoop(cands, i, tsize, st) ==
    IF i > Len(cands) THEN st
    ELSE IF Len(st.selected) >= tsize THEN st
    ELSE IF cands[i][1] \in st.selected_set THEN PadLoop(cands, i + 1, tsize, st)
    ELSE PadLoop(cands, i + 1, tsize, AppendWord(st, cands[i][1]))

\* EarlyResult with the missing features computed as on the normal path
EarlyResultComputed(sel, letters, symbols, digraphs) ==
    [selected |-> sel, missing |-> InitialMissing(letters, symbols, digraphs, sel),
     early |-> TRUE]

\* line 120
EarlyResult(sel, letters, symbols, digraphs) ==
    [selected |-> sel, missing |-> {}, early |-> TRUE]

\* lines 100-164 as one call
SelectWords(ws, tsize, ssize, csize, letters, symbols, digraphs, incl) ==
    LET cands == Candidates(ws, csize)
        inc == IncludeLoop(incl, 1, tsize, [selected |-> <<>>, selected_set |-> {}])
    IN  IF inc.returned
        THEN EarlyResult(inc.st.selected, letters, symbols, digraphs)
        ELSE LET sd == SeedLoop(cands, 1, ssize, inc.st)
                 gr == GreedyLoop(cands, tsize, digraphs,
                           [st |-> sd,
                            missing |-> InitialMissing(letters, symbols, digraphs,
                                                       sd.selected)])
                 pd == PadLoop(cands, 1, tsize, gr.st)
             IN  [selected |-> pd.selected, missing |-> gr.missing, early |-> FALSE]

----------------------------------------------------------------------------
(* One call of select_words, stepped phase by phase *)

candidates == Candidates(words, candidate_size)

state == [selected |-> selected, selected_set |-> selected_set]

\* the phase tags of the words a phase appended
Tagged(new, tag) == origin \o [i \in 1..(Len(new) - Len(selected)) |-> tag]

levelIdle == master = <<>> /\ outputs = <<>> /\ used = <<>>

InitSelect ==
    /\ words \in {WithFreq(ws) : ws \in SeqsUpTo(Vocabulary, MaxWords)}
    /\ target_size \in 0..MaxTarget
    /\ seed_size \in 0..target_size
    /\ candidate_size \in {0, MaxWords - 1}
    /\ \E alphabet \in AlphabetChoices :
          /\ allowed_letters = alphabet.letters
          /\ allowed_symbols = alphabet.symbols
          /\ required_digraphs = alphabet.digraphs
    /\ include_words \in SeqsUpTo(IncludePool, MaxInclude)
    /\ selected = <<>>
    /\ selected_set = {}
    /\ missing = {}
    /\ origin = <<>>
    /\ ret = NoResult
    /\ levelIdle
    /\ pc = "include"

IncludePhase ==
    /\ pc = "include"
    /\ LET inc == IncludeLoop(include_words, 1, target_size, state) IN
        /\ selected' = inc.st.selected
        /\ selected_set' = inc.st.selected_set
        /\ origin' = Tagged(inc.st.selected, "include")
        /\ IF inc.returned
           THEN /\ ret' = EarlyResult(inc.st.selected, allowed_letters,
                                       allowed_symbols, required_digraphs)
                /\ pc' = "return"
           ELSE /\ ret' = ret
                /\ pc' = "seed"
    /\ UNCHANGED <<words, target_size, seed_size, candidate_size, allowed_letters,
                   allowed_symbols, required_digraphs, include_words, missing,
                   master, outputs, used>>

SeedPhase ==
    /\ pc = "seed"
    /\ LET sd == SeedLoop(candidates, 1, seed_size, state) IN
        /\ selected' = sd.selected
        /\ selected_set' = sd.selected_set
        /\ origin' = Tagged(sd.selected, "seed")
    /\ pc' = "features"
    /\ UNCHANGED <<words, target_size, seed_size, candidate_size, allowed_letters,
                   allowed_symbols, required_digraphs, include_words, missing, ret,
                   master, outputs, used>>

ComputeMissing ==
    /\ pc = "features"
    /\ missing' = InitialMissing(allowed_letters, allowed_symbols, required_digraphs,
                                 selected)
    /\ pc' = "greedy"
    /\ UNCHANGED <<words, target_size, seed_size, candidate_size, allowed_letters,
                   allowed_symbols, required_digraphs, include_words, selected,
                   selected_set, origin, ret, master, outputs, used>>

GreedyIteration ==
    /\ pc = "greedy"
    /\ GreedyGuard(selected, missing, target_size)
    /\ LET best_word == BestWord(candidates, selected_set, required_digraphs, missing) IN
        /\ best_word # None
        /\ selected' = AppendWord(state, best_word).selected
        /\ selected_set' = AppendWord(state, best_word).selected_set
        /\ origin' = Tagged(selected', "greedy")
        /\ missing' = RemoveCovered(missing, best_word, required_digraphs)
    /\ pc' = "greedy"
    /\ UNCHANGED <<words, target_size, seed_size, candidate_size, allowed_letters,
                   allowed_symbols, required_digraphs, include_words, ret,
                   master, outputs, used>>

GreedyExit ==
    /\ pc = "greedy"
    /\ \/ ~GreedyGuard(selected, missing, target_size)
       \/ BestWord(candidates, selected_set, required_digraphs, missing) = None
    /\ pc' = "pad"
    /\ UNCHANGED <<words, target_size, seed_size, candidate_size, allowed_letters,
                   allowed_symbols, required_digraphs, include_words, selected,
                   selected_set, missing, origin, ret, master, outputs, used>>

PadPhase ==
    /\ pc = "pad"
    /\ LET pd == PadLoop(candidates, 1, target_size, state) IN
        /\ selected' = pd.selected
        /\ selected_set' = pd.selected_set
        /\ origin' = Tagged(pd.selected, "pad")
        /\ ret' = [selected |-> pd.selected, missing |-> missing, early |-> FALSE]
    /\ pc' = "return"
    /\ UNCHANGED <<words, target_size, seed_size, candidate_size, allowed_letters,
                   allowed_symbols, required_digraphs, include_words, missing,
                   master, outputs, used>>

NextSelect ==
    \/ IncludePhase
    \/ SeedPhase
    \/ ComputeMissing
    \/ GreedyIteration
    \/ GreedyExit
    \/ PadPhase

Spec == InitSelect /\ [][NextSelect]_vars

----------------------------------------------------------------------------
(* build_level_words: one action per iteration of the loop over the levels *)

\* the levels configs of the model: what a level adds to the alphabet ...
AlphabetSteps ==
    { [add_chars |-> <<>>, add_symbols |-> <<>>, add_digraphs |-> <<>>],
      [add_chars |-> <<"a">>, add_symbols |-> <<>>, add_digraphs |-> <<>>],
      [add_chars |-> <<"l">>, add_symbols |-> <<>>, add_digraphs |-> DIGRAPHS],
      [add_chars |-> <<>>, add_symbols |-> <<"'">>, add_digraphs |-> <<>>],
      [add_chars |-> <<"'">>, add_symbols |-> <<>>, add_digraphs |-> <<>>] }

\* ... its <<target_size, seed_size>> ...
LevelSizes == { <<2, 1>>, <<1, 2>> }

\* ... and its include_words
LevelIncludes == { <<>>, << <<"L", "a">>, <<"l", "'">> >> }

LevelSpecs ==
    { [target_size |-> sz[1], seed_size |-> sz[2], add_chars |-> a.add_chars,
       add_symbols |-> a.add_symbols, add_digraphs |-> a.add_digraphs,
       include_words |-> inc] :
        sz \in LevelSizes, a \in AlphabetSteps, inc \in LevelIncludes }

\* the corpora handed to build_level_words
Corpora ==
    { << <<"a">>, <<"l", "a">>, <<"l", "'">>, <<"a", "l", "l">> >>,
      << <<"l", "'">>, <<"a", "l", "l">>, <<"l", "a">> >> }

\* FoldLetters with = for |=
FoldLettersReplace(letters, add_chars) == Range(add_chars)

\* line 204
FoldLetters(letters, add_chars) == letters \cup Range(add_chars)

\* line 205
FoldSymbols(symbols, add_symbols) == symbols \cup Range(add_symbols)

\* line 206
FoldDigraphs(digraphs, add_digraphs) == digraphs \o add_digraphs

\* lines 210 and 216
InAlphabet(word, letters, symbols) ==
    \A i \in 1..Len(word) : word[i] \in letters \/ word[i] \in symbols

\* lines 208-211
Filtered(ws, letters, symbols) ==
    LET Keep(p) == InAlphabet(p[1], letters, symbols) IN SelectSeq(ws, Keep)

\* NormalizedInclude without the filter of line 216
NormalizedIncludeUnfiltered(incl, letters, symbols) ==
    [i \in 1..Len(incl) |-> Lower(incl[i])]

\* lines 213-217
NormalizedInclude(incl, letters, symbols) ==
    LET Keep(w) == InAlphabet(w, letters, symbols)
    IN  SelectSeq([i \in 1..Len(incl) |-> Lower(incl[i])], Keep)

\* lines 223-224
ClampTarget(tsize, filtered) == IF Len(filtered) < tsize THEN Len(filtered) ELSE tsize

\* the alphabet after lines 204-206, with the level it was folded from
Snapshot(level) ==
    [letters |-> FoldLetters(allowed_letters, level.add_chars),
     symbols |-> FoldSymbols(allowed_symbols, level.add_symbols),
     digraphs |-> FoldDigraphs(required_digraphs, level.add_digraphs),
     level |-> level]

selectIdle ==
    /\ words = <<>> /\ target_size = 0 /\ seed_size = 0 /\ include_words = <<>>
    /\ selected = <<>> /\ selected_set = {} /\ missing = {} /\ origin = <<>>
    /\ ret = NoResult

InitLevels ==
    /\ master \in {WithFreq(ws) : ws \in Corpora}
    /\ candidate_size \in {0, 2}
    /\ allowed_letters = {}
    /\ allowed_symbols = {}
    /\ required_digraphs = <<>>
    /\ outputs = <<>>
    /\ used = <<>>
    /\ selectIdle
    /\ pc = "levels"

\* lines 187-188
RaiseNoLevels ==
    /\ pc = "levels"
    /\ outputs = <<>>
    /\ pc' = "error"
    /\ UNCHANGED <<candidate_size, allowed_letters, allowed_symbols, required_digraphs,
                   master, outputs, used>>
    /\ UNCHANGED selectVars

\* lines 196-221: a level whose filtered pool is empty
LevelSkipped ==
    /\ pc = "levels"
    /\ Len(outputs) < MaxLevels
    /\ \E level \in LevelSpecs :
        LET snap == Snapshot(level)
            filtered == Filtered(master, snap.letters, snap.symbols)
        IN  /\ filtered = <<>>
            /\ allowed_letters' = snap.letters
            /\ allowed_symbols' = snap.symbols
            /\ required_digraphs' = snap.digraphs
            /\ outputs' = Append(outputs, [dest |-> <<"name", Len(outputs) + 1>>,
                                           selected |-> <<>>, missing |-> {}])
            /\ used' = Append(used, snap)
    /\ pc' = "levels"
    /\ UNCHANGED <<candidate_size, master>>
    /\ UNCHANGED selectVars

\* lines 196-238: a level that calls select_words
LevelSelected ==
    /\ pc = "levels"
    /\ Len(outputs) < MaxLevels
    /\ \E level \in LevelSpecs :
        LET snap == Snapshot(level)
            filtered == Filtered(master, snap.letters, snap.symbols)
            normalized_include ==
                NormalizedInclude(level.include_words, snap.letters, snap.symbols)
            tsize == ClampTarget(level.target_size, filtered)
            res == SelectWords(filtered, tsize, Min(level.seed_size, tsize),
                               candidate_size, snap.letters, snap.symbols,
                               snap.digraphs, normalized_include)
        IN  /\ filtered # <<>>
            /\ allowed_letters' = snap.letters
            /\ allowed_symbols' = snap.symbols
            /\ required_digraphs' = snap.digraphs
            /\ outputs' = Append(outputs, [dest |-> <<"path", Len(outputs) + 1>>,
                                           selected |-> res.selected,
                                           missing |-> res.missing])
            /\ used' = Append(used, snap)
    /\ pc' = "levels"
    /\ UNCHANGED <<candidate_size, master>>
    /\ UNCHANGED selectVars

\* line 240
ReturnOutputs ==
    /\ pc = "levels"
    /\ outputs # <<>>
    /\ pc' = "done"
    /\ UNCHANGED <<candidate_size, allowed_letters, allowed_symbols, required_digraphs,
                   master, outputs, used>>
    /\ UNCHANGED selectVars

NextLevels ==
    \/ RaiseNoLevels
    \/ LevelSkipped
    \/ LevelSelected
    \/ ReturnOutputs

SpecLevels == InitLevels /\ [][NextLevels]_vars

----------------------------------------------------------------------------
(* Properties of select_words (checked under Spec) *)

\* the first occurrences of s, in order
RECURSIVE Dedup(_)
Dedup(s) ==
    IF s = <<>> THEN <<>>
    ELSE LET front == Dedup(SubSeq(s, 1, Len(s) - 1)) IN
         IF s[Len(s)] \in Range(front) THEN front ELSE Append(front, s[Len(s)])

\* the number of words the include phase selected
IncludeCount == Cardinality({i \in 1..Len(origin) : origin[i] = "include"})

\* the distinct words of the candidate window
WindowWords == {candidates[i][1] : i \in 1..Len(candidates)}

HasRepeat(s) == \E i, j \in 1..Len(s) : i # j /\ s[i] = s[j]

\* C1: select_words returns at most target_size words, on the early return and on
\* the normal return, for every 0 <= seed_size <= target_size.
C1_AtMostTargetSize ==
    pc = "return" => Len(ret.selected) <= target_size

\* C2: no word appears twice in the list select_words builds and returns, also when
\* include_words or the candidates repeat a word or share one.
C2_NoDuplicates ==
    /\ \A i, j \in 1..Len(selected) : selected[i] = selected[j] => i = j
    /\ pc = "return" => ret.selected = selected

C2_Witness ==
    /\ pc = "return"
    /\ ~ret.early
    /\ HasRepeat(include_words)
    /\ HasRepeat([i \in 1..Len(candidates) |-> candidates[i][1]])
    /\ Range(include_words) \cap WindowWords # {}
    /\ Len(ret.selected) = 2

\* C3: the include words processed before target_size is reached are all in the
\* list, in their given order (first occurrences), ahead of every seed, greedy
\* and pad word.
C3_IncludeFirst ==
    pc # "include" =>
        LET D == Dedup(include_words)
            k == IncludeCount
        IN  /\ Len(origin) = Len(selected)
            /\ \A i \in 1..Len(origin) : origin[i] = "include" <=> i <= k
            /\ k <= Len(D)
            /\ \A i \in 1..k : selected[i] = D[i]
            /\ k >= Min(Len(D), target_size)
            /\ pc = "return" => ret.selected = selected

C3_Witness ==
    /\ pc = "return"
    /\ ~ret.early
    /\ IncludeCount = 2
    /\ Len(ret.selected) = 3
    /\ ret.selected[3] \notin Range(include_words)

\* C4: when an include word brings the selection to target_size, select_words
\* returns at once: only include words, none after the one that reached the
\* size, and an empty missing set whatever the included words cover.
C4_EarlyReturn ==
    /\ (pc = "return" /\ ret.early) =>
          /\ ret.missing = {}
          /\ ret.selected = SubSeq(Dedup(include_words), 1, Max(target_size, 1))
          /\ \A i \in 1..Len(origin) : origin[i] = "include"
    /\ (pc # "include" /\ IncludeCount >= 1 /\ IncludeCount >= target_size) =>
          pc = "return" /\ ret.early

C4_Witness ==
    /\ pc = "return"
    /\ ret.early
    /\ InitialMissing(allowed_letters, allowed_symbols, required_digraphs,
                      ret.selected) # {}
    /\ Len(Dedup(include_words)) > Len(ret.selected)

\* what C5 says of one iteration of the greedy loop
C5_Iteration ==
    LET n == Len(selected)
        w == selected'[n + 1]
        unselected == {i \in 1..Len(candidates) : candidates[i][1] \notin selected_set}
        g(i) == Cardinality(get_features(candidates[i][1], required_digraphs)
                            \cap missing)
    IN  /\ Len(selected') = n + 1
        /\ SubSeq(selected', 1, n) = selected
        /\ \E i \in unselected :
              /\ candidates[i][1] = w
              /\ g(i) >= 1
              /\ \A j \in unselected : g(j) <= g(i) /\ (j < i => g(j) < g(i))
        /\ missing' = missing \ get_features(w, required_digraphs)

\* C5: every greedy iteration appends the unselected word of the candidate
\* window with the largest gain (at least 1), the first in candidate order among
\* those of that gain, and removes exactly that word's features from missing.
C5_GreedyChoice ==
    [][(pc = "greedy" /\ pc' = "greedy") => C5_Iteration]_vars

\* the first greedy word won a tie against another unselected word
C5_Witness ==
    \E p \in 2..Len(origin) :
        /\ origin[p] = "greedy"
        /\ origin[p - 1] # "greedy"
        /\ LET before == SubSeq(selected, 1, p - 1)
               miss == InitialMissing(allowed_letters, allowed_symbols,
                                      required_digraphs, before)
               g(w) == Cardinality(get_features(w, required_digraphs) \cap miss)
           IN  \E w \in WindowWords \ (Range(before) \cup {selected[p]}) :
                   g(w) = g(selected[p])

\* C8: after the seed phase the number of selected words is
\* min(max(k, seed_size), k + unselected words of the window), k the number of
\* include words; the phase appends nothing when k >= seed_size.
C8_SeedCount ==
    pc = "features" =>
        LET k == IncludeCount
            avail == Cardinality(WindowWords \ Range(SubSeq(selected, 1, k)))
        IN  Len(selected) = Min(Max(k, seed_size), k + avail)

\* C10: on the normal return the missing set is exactly the target features that
\* no returned word has; when the greedy loop ends with features missing and
\* room left, no unselected word of the window has any of them.
C10_MissingIsUncovered ==
    /\ (pc = "return" /\ ~ret.early) =>
          ret.missing = TargetFeatures(allowed_letters, allowed_symbols,
                                       required_digraphs)
                        \ Covered(ret.selected, required_digraphs)
    /\ (pc = "pad" /\ missing # {} /\ Len(selected) < target_size) =>
          \A w \in WindowWords \ selected_set :
              get_features(w, required_digraphs) \cap missing = {}

C10_Witness ==
    /\ pc = "return"
    /\ ~ret.early
    /\ ret.missing # {}
    /\ \E i, j \in 1..Len(origin) : origin[i] = "greedy" /\ origin[j] = "pad"

----------------------------------------------------------------------------
(* Properties of build_level_words (checked under SpecLevels) *)

\* C6: the alphabet a level is processed with contains that of every earlier
\* level, and the digraphs an earlier level introduced; a skipped level in
\* between and the calls of select_words change nothing of it.
C6_AlphabetGrows ==
    /\ \A i, j \in 1..Len(used) :
          i < j => /\ used[i].letters \subseteq used[j].letters
                   /\ used[i].symbols \subseteq used[j].symbols
                   /\ Range(used[i].level.add_digraphs) \subseteq Range(used[j].digraphs)
    /\ \A i \in 1..Len(used) :
          /\ Range(used[i].level.add_chars) \subseteq used[i].letters
          /\ Range(used[i].level.add_symbols) \subseteq used[i].symbols
          /\ Range(used[i].level.add_digraphs) \subseteq Range(used[i].digraphs)
    /\ used # <<>> =>
          /\ allowed_letters = used[Len(used)].letters
          /\ allowed_symbols = used[Len(used)].symbols
          /\ required_digraphs = used[Len(used)].digraphs

C6_Witness ==
    /\ Len(used) = 3
    /\ used[1].letters # {}
    /\ outputs[2].selected = <<>>
    /\ outputs[3].selected # <<>>
    /\ used[1].letters # used[3].letters
    /\ used[1].level.add_digraphs # <<>>

\* C7: every word of a level's list consists of characters of that level's
\* cumulative alphabet only.
C7_WordsInAlphabet ==
    \A n \in 1..Len(outputs) :
        \A i \in 1..Len(outputs[n].selected) :
            Range(outputs[n].selected[i]) \subseteq (used[n].letters \cup used[n].symbols)

\* an include word was kept (lowercased) and another one dropped, and a word of
\* the corpus was left out
C7_Witness ==
    \E n \in 1..Len(outputs) :
        /\ used[n].level.include_words = << <<"L", "a">>, <<"l", "'">> >>
        /\ Len(outputs[n].selected) = 2
        /\ outputs[n].selected[1] = <<"l", "a">>
        /\ <<"l", "'">> \notin Range(outputs[n].selected)

\* the features C9 gives a word: each character classified by the active alphabet
ActiveFeatures(word, letters, symbols, digraphs) ==
    {<<"letter", <<word[i]>>>> : i \in {j \in 1..Len(word) : word[j] \in letters}}
    \cup {<<"symbol", <<word[i]>>>> :
            i \in {j \in 1..Len(word) : word[j] \notin letters /\ word[j] \in symbols}}
    \cup {<<"digraph", digraphs[k]>> :
            k \in {j \in 1..Len(digraphs) : Contains(word, digraphs[j])}}

\* C9: a word's features classify its characters by the active alphabet, so in
\* level mode a target tag letter:c or symbol:c of the cumulative alphabet is
\* covered by any selected word that contains c.
C9_ActiveAlphabetFeatures ==
    \A n \in 1..Len(outputs) :
        LET sel == outputs[n].selected
            Has(c) == \E i \in 1..Len(sel) : c \in Range(sel[i])
        IN  /\ \A i \in 1..Len(sel) :
                  get_features(sel[i], used[n].digraphs)
                  = ActiveFeatures(sel[i], used[n].letters, used[n].symbols,
                                   used[n].digraphs)
            /\ \A c \in used[n].letters :
                  Has(c) => <<"letter", <<c>>>> \notin outputs[n].missing
            /\ \A c \in used[n].symbols :
                  Has(c) => <<"symbol", <<c>>>> \notin outputs[n].missing

====
